---- MODULE Spec2Model ----
(***************************************************************************)
(* Model of the chat page of ai-lawyer-fe (src/pages/chat.tsx).            *)
(*                                                                         *)
(* The page is a React function component.  Its state is the six useState  *)
(* cells, the browser's localStorage (keys "chats" and "history"), the     *)
(* answer requests that are in flight, and the wall clock.  Every event    *)
(* handler runs to completion, React commits the batched state updates,    *)
(* and the persist effect (lines 52-58) runs on that commit; one action    *)
(* below is one handler together with the commit and the effect it causes. *)
(*                                                                         *)
(* Strings are sequences of one-character strings, so that trim() and      *)
(* startsWith() are computed rather than assumed.                          *)
(***************************************************************************)
EXTENDS Integers, Sequences, FiniteSets, TLC

VARIABLES
    messages,       \* useState<Message[]>            (line 27)
    message,        \* useState<string>, the input    (line 28)
    history,        \* useState<string[][]>           (line 29)
    chats,          \* useState<{id,title,date}[]>    (lines 30-32)
    currentChatId,  \* useState<string>               (line 33)
    loading,        \* useState<boolean>              (line 34)
    loadingChats,   \* useState<boolean>              (line 35)
    lsChats,        \* localStorage "chats", parsed
    lsHistory,      \* localStorage "history", parsed: chat id -> string[][]
    inflight,       \* POSTs to /ai/answer-question awaiting their outcome
    now,            \* the clock read by Date.now() / new Date()
    page,           \* "unloaded" | "mounted" | "crashed"
    last            \* history variable: the handler that made the last step

vars == <<messages, message, history, chats, currentChatId, loading,
          loadingChats, lsChats, lsHistory, inflight, now, page, last>>

-----------------------------------------------------------------------------
(* Bounds of the exploration. *)

\* the clock runs from 1 to MaxClock
MaxClock == 2
\* createNewChat is not explored once the list holds MaxChats chats
MaxChats == 2
\* sendMessage is not explored once localStorage holds MaxEntries questions
MaxEntries == 2

RECURSIVE SumLen(_, _)
SumLen(store, ks) ==
    IF ks = {} THEN 0
    ELSE LET k == CHOOSE x \in ks : TRUE
         IN  Len(store[k]) + SumLen(store, ks \ {k})

\* the number of questions held in localStorage "history", which MaxEntries caps
StoredEntries(store) == SumLen(store, DOMAIN store)

-----------------------------------------------------------------------------
(* Strings. *)

\* What the user can have in the input field: "", " ", "q " and "Chat".
InputTexts == { <<>>, <<" ">>, <<"q", " ">>, <<"C", "h", "a", "t">> }

\* response.data.answer: a text, or falsy ("" or missing).
NoAnswer == <<>>
AnswerTexts == { <<"a">>, NoAnswer }

NewChatTitle == <<"N", "e", "w", " ", "C", "h", "a", "t">>
ChatPrefix == <<"C", "h", "a", "t">>

IsSpace(c) == c \in {" ", "\t", "\n"}

RECURSIVE TrimStart(_)
TrimStart(s) ==
    IF s # <<>> /\ IsSpace(Head(s)) THEN TrimStart(Tail(s)) ELSE s

RECURSIVE TrimEnd(_)
TrimEnd(s) ==
    IF s # <<>> /\ IsSpace(s[Len(s)]) THEN TrimEnd(SubSeq(s, 1, Len(s) - 1)) ELSE s

\* String.prototype.trim
Trim(s) == TrimEnd(TrimStart(s))

\* the guard of line 61: !message.trim()
IsBlank(s) == Trim(s) = <<>>

StartsWithAnywhere(s, p) ==
    \E k \in 1..Len(s) : k + Len(p) - 1 <= Len(s) /\ SubSeq(s, k, k + Len(p) - 1) = p

\* String.prototype.startsWith
StartsWith(s, p) ==
    Len(s) >= Len(p) /\ SubSeq(s, 1, Len(p)) = p

-----------------------------------------------------------------------------
(* localStorage. *)

\* allHistories[id] || []
Get(store, id) == IF id \in DOMAIN store THEN store[id] ELSE <<>>

PersistHistoryDroppingOthers(h, cur, store) == [k \in {cur} |-> h]

\* lines 55-57: read the stored histories, set the current chat's, write back
PersistHistory(h, cur, store) ==
    [k \in (DOMAIN store) \cup {cur} |-> IF k = cur THEN h ELSE store[k]]

EmptyStore == [k \in {} |-> <<>>]

-----------------------------------------------------------------------------
(* Messages. *)

UserMessageTrimmed(text) == [sender |-> "user", text |-> Trim(text)]

\* line 63 (and line 136): { sender: "user", text }
UserMessage(text) == [sender |-> "user", text |-> text]
AiMessage(text) == [sender |-> "ai", text |-> text]

\* { sender: "ai", text: undefined }: the second element of a one-element entry
AiMessageUndefined == [sender |-> "ai"]

EntryMessagesAnsweredOnly(entry) ==
    IF Len(entry) >= 2
    THEN << UserMessage(entry[1]), AiMessage(entry[2]) >>
    ELSE << UserMessage(entry[1]) >>

\* lines 135-138: ([userMsg, aiMsg]) => [{user, userMsg}, {ai, aiMsg}]
EntryMessages(entry) ==
    << UserMessage(entry[1]),
       IF Len(entry) >= 2 THEN AiMessage(entry[2]) ELSE AiMessageUndefined >>

\* lines 134-139: allHistories[chatId]?.map(...).flat() || []
RECURSIVE FlatMessages(_)
FlatMessages(h) ==
    IF h = <<>> THEN <<>> ELSE EntryMessages(Head(h)) \o FlatMessages(Tail(h))

-----------------------------------------------------------------------------
(* Chats. *)

HasChat(cs, id) == \E i \in 1..Len(cs) : cs[i].id = id

ClockId == ToString(now)

RetitleAny(cs, cur, text) ==
    [i \in 1..Len(cs) |->
        IF cs[i].id = cur /\ StartsWithAnywhere(cs[i].title, ChatPrefix)
        THEN [cs[i] EXCEPT !.title = text]
        ELSE cs[i]]

\* lines 76-82: prev.map(chat => id matches && title.startsWith("Chat") ? ...)
Retitle(cs, cur, text) ==
    [i \in 1..Len(cs) |->
        IF cs[i].id = cur /\ StartsWith(cs[i].title, ChatPrefix)
        THEN [cs[i] EXCEPT !.title = text]
        ELSE cs[i]]

\* lines 68-83
ChatsAfterSend(cs, cur, text) ==
    IF ~HasChat(cs, cur)
    THEN Append(cs, [id |-> cur, title |-> text, date |-> now])
    ELSE Retitle(cs, cur, text)

-----------------------------------------------------------------------------
(* Requests. *)

RequestWithQuestionInHistory(q, h, cur) ==
    [question |-> q, history |-> Append(h, <<q>>), chat |-> cur, idx |-> Len(h) + 1]

\* lines 88-91: the body { question: message, history } of the POST.  chat and
\* idx record where the question was put; the code does not send them.
Request(q, h, cur) ==
    [question |-> q, history |-> h, chat |-> cur, idx |-> Len(h) + 1]

RemoveAt(s, i) == SubSeq(s, 1, i - 1) \o SubSeq(s, i + 1, Len(s))

-----------------------------------------------------------------------------
(* The state after construction: nothing loaded, an empty localStorage. *)

Unmounted(p) ==
    /\ messages' = <<>>
    /\ message' = <<>>
    /\ history' = <<>>
    /\ chats' = <<>>
    /\ currentChatId' = ""
    /\ loading' = FALSE
    /\ loadingChats' = TRUE
    /\ inflight' = <<>>
    /\ page' = p

Init ==
    /\ messages = <<>>
    /\ message = <<>>
    /\ history = <<>>
    /\ chats = <<>>
    /\ currentChatId = ""
    /\ loading = FALSE
    /\ loadingChats = TRUE
    /\ lsChats = <<>>
    /\ lsHistory = EmptyStore
    /\ inflight = <<>>
    /\ now = 1
    /\ page = "unloaded"
    /\ last = [op |-> "init"]

-----------------------------------------------------------------------------
(* Actions. *)

SavedChatsAfterPersist == <<>>

\* line 41: JSON.parse(localStorage.getItem("chats") || "[]"), read by the
\* mount effect before the persist effect of the first commit has written
SavedChats == lsChats

\* Loading the page: the first commit runs the mount effect (lines 39-50) and
\* then the persist effect with the useState defaults; the state the mount
\* effect sets is committed next and the persist effect runs again.
Mount ==
    /\ page # "mounted"
    /\ LET savedChats == SavedChats
           savedHistory == lsHistory
           firstPersist == PersistHistory(<<>>, "", lsHistory)
           cur == IF Len(savedChats) > 0 THEN savedChats[1].id ELSE ""
           h == IF Len(savedChats) > 0 THEN Get(savedHistory, cur) ELSE <<>>
       IN  /\ chats' = savedChats
           /\ currentChatId' = cur
           /\ history' = h
           /\ lsChats' = savedChats
           /\ lsHistory' = PersistHistory(h, cur, firstPersist)
    /\ messages' = <<>>
    /\ message' = <<>>
    /\ loading' = FALSE
    /\ loadingChats' = FALSE
    /\ inflight' = <<>>
    /\ page' = "mounted"
    /\ last' = [op |-> "mount"]
    /\ UNCHANGED now

\* Leaving or reloading the page destroys the component and its requests.
Unload ==
    /\ page = "mounted"
    /\ Unmounted("unloaded")
    /\ last' = [op |-> "unload"]
    /\ UNCHANGED <<lsChats, lsHistory, now>>

\* line 274: onChange={(e) => setMessage(e.target.value)}
OnChange(text) ==
    /\ page = "mounted"
    /\ message' = text
    /\ last' = [op |-> "onChange"]
    /\ UNCHANGED <<messages, history, chats, currentChatId, loading,
                   loadingChats, lsChats, lsHistory, inflight, now, page>>

\* lines 60-91: sendMessage up to the await
SendMessage ==
    /\ page = "mounted"
    /\ IF IsBlank(message)
       THEN /\ last' = [op |-> "sendMessage", sent |-> FALSE]
            /\ UNCHANGED <<messages, message, history, chats, currentChatId,
                           loading, loadingChats, lsChats, lsHistory, inflight,
                           now, page>>
       ELSE /\ StoredEntries(lsHistory) < MaxEntries
            /\ messages' = Append(messages, UserMessage(message))
            /\ history' = Append(history, <<message>>)
            /\ message' = <<>>
            /\ chats' = ChatsAfterSend(chats, currentChatId, message)
            /\ loading' = TRUE
            /\ inflight' = Append(inflight, Request(message, history, currentChatId))
            /\ lsChats' = chats'
            /\ lsHistory' = PersistHistory(history', currentChatId, lsHistory)
            /\ last' = [op |-> "sendMessage", sent |-> TRUE]
            /\ UNCHANGED <<currentChatId, loadingChats, now, page>>

\* lines 93-106 and 110: the POST of request i resolved with { answer }
ResponseArrives(i, answer) ==
    /\ page = "mounted"
    /\ i \in 1..Len(inflight)
    /\ last' = [op |-> "response", i |-> i, answer |-> answer]
    /\ IF answer = NoAnswer
       THEN /\ loading' = FALSE
            /\ inflight' = RemoveAt(inflight, i)
            /\ UNCHANGED <<messages, message, history, chats, currentChatId,
                           loadingChats, lsChats, lsHistory, now, page>>
       ELSE IF history = <<>>
       THEN \* updated[-1][1] = answer throws while React renders: the tree
            \* is unmounted and the commit, with its effects, never happens
            /\ Unmounted("crashed")
            /\ UNCHANGED <<lsChats, lsHistory, now>>
       ELSE /\ messages' = Append(messages, AiMessage(answer))
            /\ history' = [history EXCEPT ![Len(history)] = <<@[1], answer>>]
            /\ loading' = FALSE
            /\ inflight' = RemoveAt(inflight, i)
            /\ lsChats' = chats
            /\ lsHistory' = PersistHistory(history', currentChatId, lsHistory)
            /\ UNCHANGED <<message, chats, currentChatId, loadingChats, now, page>>

ResponseFailsKeepsLoading(i) ==
    /\ page = "mounted"
    /\ i \in 1..Len(inflight)
    /\ inflight' = RemoveAt(inflight, i)
    /\ last' = [op |-> "responseFails", i |-> i]
    /\ UNCHANGED <<messages, message, history, chats, currentChatId, loading,
                   loadingChats, lsChats, lsHistory, now, page>>

\* lines 107-111: the POST of request i rejected
ResponseFails(i) ==
    /\ page = "mounted"
    /\ i \in 1..Len(inflight)
    /\ loading' = FALSE
    /\ inflight' = RemoveAt(inflight, i)
    /\ last' = [op |-> "responseFails", i |-> i]
    /\ UNCHANGED <<messages, message, history, chats, currentChatId,
                   loadingChats, lsChats, lsHistory, now, page>>

NewChatIdMadeUnique(cs) == IF HasChat(cs, ClockId) THEN ClockId \o "'" ELSE ClockId

\* line 115: Date.now().toString()
NewChatId(cs) == ClockId

\* lines 114-127
CreateNewChat ==
    /\ page = "mounted"
    /\ Len(chats) < MaxChats
    /\ LET newChatId == NewChatId(chats)
       IN  /\ chats' = Append(chats, [id |-> newChatId, title |-> NewChatTitle,
                                      date |-> now])
           /\ currentChatId' = newChatId
    /\ messages' = <<>>
    /\ history' = <<>>
    /\ lsChats' = chats'
    /\ lsHistory' = PersistHistory(<<>>, currentChatId', lsHistory)
    /\ last' = [op |-> "createNewChat"]
    /\ UNCHANGED <<message, loading, loadingChats, inflight, now, page>>

\* lines 129-141, called from the chat list (line 212) with a listed chat's id
SwitchChat(chatId) ==
    /\ page = "mounted"
    /\ HasChat(chats, chatId)
    /\ currentChatId' = chatId
    /\ history' = Get(lsHistory, chatId)
    /\ messages' = FlatMessages(Get(lsHistory, chatId))
    /\ lsChats' = chats
    /\ lsHistory' = PersistHistory(history', chatId, lsHistory)
    /\ last' = [op |-> "switchChat", chatId |-> chatId]
    /\ UNCHANGED <<message, chats, loading, loadingChats, inflight, now, page>>

\* time passes
Tick ==
    /\ now < MaxClock
    /\ now' = now + 1
    /\ last' = [op |-> "tick"]
    /\ UNCHANGED <<messages, message, history, chats, currentChatId, loading,
                   loadingChats, lsChats, lsHistory, inflight, page>>

ChatIds == {""} \cup { ToString(t) : t \in 1..MaxClock }

Next ==
    \/ Mount
    \/ Unload
    \/ \E text \in InputTexts : OnChange(text)
    \/ SendMessage
    \/ \E i \in 1..Len(inflight), answer \in AnswerTexts : ResponseArrives(i, answer)
    \/ \E i \in 1..Len(inflight) : ResponseFails(i)
    \/ CreateNewChat
    \/ \E chatId \in ChatIds : SwitchChat(chatId)
    \/ Tick

Spec == Init /\ [][Next]_vars

-----------------------------------------------------------------------------
(* Properties. *)

\* "not empty or whitespace-only", stated without trim()
HasVisibleChar(s) == \E i \in 1..Len(s) : s[i] \notin {" ", "\t", "\n"}

BeginsWithChat(t) ==
    Len(t) >= 4 /\ t[1] = "C" /\ t[2] = "h" /\ t[3] = "a" /\ t[4] = "t"

SentStep == last'.op = "sendMessage" /\ HasVisibleChar(message)

\* C1: a sendMessage with an input that is not empty or whitespace-only puts
\* exactly one message {user, input} at the end of messages and exactly one
\* entry [input] at the end of history, clears the input field, and leaves every
\* earlier message and entry where and as it was.
C1_SendAppends ==
    [][ SentStep =>
          /\ Len(messages') = Len(messages) + 1
          /\ messages'[Len(messages')] = [sender |-> "user", text |-> message]
          /\ \A i \in 1..Len(messages) : messages'[i] = messages[i]
          /\ Len(history') = Len(history) + 1
          /\ history'[Len(history')] = <<message>>
          /\ \A i \in 1..Len(history) : history'[i] = history[i]
          /\ message' = <<>> ]_vars

\* a send has just added to a thread that already held a message and an entry,
\* and the text sent ends in a space
C1_Witness ==
    /\ last.op = "sendMessage" /\ last.sent
    /\ Len(messages) >= 2 /\ Len(history) >= 2
    /\ messages[Len(messages)] = [sender |-> "user", text |-> <<"q", " ">>]

\* C2: switchChat(c) makes c the current chat, makes history the history stored
\* under c (empty if none), and makes messages the stored entries in order,
\* each as a user message followed by an ai message.
C2_SwitchLoadsStored ==
    [][ last'.op = "switchChat" =>
          LET c == last'.chatId
              stored == IF c \in DOMAIN lsHistory THEN lsHistory[c] ELSE <<>>
          IN  /\ currentChatId' = c
              /\ history' = stored
              /\ Len(messages') = 2 * Len(stored)
              /\ \A i \in 1..Len(stored) :
                    /\ messages'[2 * i - 1] = [sender |-> "user", text |-> stored[i][1]]
                    /\ messages'[2 * i].sender = "ai"
                    /\ Len(stored[i]) >= 2 =>
                          messages'[2 * i] = [sender |-> "ai", text |-> stored[i][2]] ]_vars

\* a switch has loaded a history holding an answered and an unanswered question
C2_Witness ==
    /\ last.op = "switchChat"
    /\ \E i, j \in 1..Len(history) : Len(history[i]) = 1 /\ Len(history[j]) = 2
    /\ Len(messages) = 4

HandlerOps == {"sendMessage", "createNewChat", "switchChat", "response", "responseFails"}

\* C3: while the page is mounted, localStorage "chats" is the chats state and
\* localStorage "history" holds the history state under currentChatId; and
\* sendMessage, createNewChat, switchChat and the arrival of a response leave
\* the stored history of every other chat id as it was.
C3_Persisted ==
    /\ [](page = "mounted" =>
            /\ lsChats = chats
            /\ currentChatId \in DOMAIN lsHistory
            /\ lsHistory[currentChatId] = history)
    /\ [][ (last'.op \in HandlerOps /\ page' = "mounted") =>
             \A k \in DOMAIN lsHistory :
                k # currentChatId' => k \in DOMAIN lsHistory' /\ lsHistory'[k] = lsHistory[k] ]_vars

\* a handler has persisted a non-empty history while another chat's stored
\* history is non-empty too
C3_Witness ==
    /\ page = "mounted" /\ last.op \in HandlerOps
    /\ history # <<>>
    /\ \E k \in DOMAIN lsHistory : k # currentChatId /\ lsHistory[k] # <<>>

\* C4: when a response carrying an answer is applied, the answer goes into the
\* entry whose question that request sent, in the chat it was sent from, and
\* nothing else in any chat's history changes.
C4_AnswerGoesToItsQuestion ==
    [][ (last'.op = "response" /\ last'.answer # NoAnswer) =>
          LET r == inflight[last'.i]
          IN  \A c \in DOMAIN lsHistory :
                 /\ c \in DOMAIN lsHistory'
                 /\ Len(lsHistory'[c]) = Len(lsHistory[c])
                 /\ \A n \in 1..Len(lsHistory[c]) :
                       lsHistory'[c][n] =
                          IF c = r.chat /\ n = r.idx
                          THEN <<r.question, last'.answer>>
                          ELSE lsHistory[c][n] ]_vars

\* C5: when the POST fails, no ai message is appended, messages, history and
\* chats (state and stored) stay as they are, the request is gone and no other
\* is issued, and loading is false.
C5_FailureOnlyClearsLoading ==
    [][ last'.op = "responseFails" =>
          /\ messages' = messages
          /\ history' = history
          /\ chats' = chats
          /\ lsChats' = lsChats
          /\ lsHistory' = lsHistory
          /\ loading' = FALSE
          /\ Len(inflight') = Len(inflight) - 1
          /\ \A j \in 1..Len(inflight') :
                inflight'[j] = inflight[IF j < last'.i THEN j ELSE j + 1] ]_vars

\* a request has failed in the chat it was sent from: the user message is the
\* last message and the entry holds the question alone
C5_Witness ==
    /\ last.op = "responseFails"
    /\ messages # <<>> /\ messages[Len(messages)].sender = "user"
    /\ history # <<>> /\ Len(history[Len(history)]) = 1
    /\ inflight = <<>> /\ ~loading

\* C6: loading is true exactly while at least one answer request is in flight.
C6_LoadingIffInflight ==
    page = "mounted" => (loading <=> Len(inflight) > 0)

\* C7: mounting sets chats to the stored list, and, when the list is not
\* empty, currentChatId to the first stored chat's id and history to its stored
\* history; messages starts empty; afterwards the stored list and the stored
\* history of every stored chat are what they were before.
C7_MountRestores ==
    [][ last'.op = "mount" =>
          /\ chats' = lsChats
          /\ messages' = <<>>
          /\ Len(lsChats) > 0 =>
                /\ currentChatId' = lsChats[1].id
                /\ lsChats[1].id \in DOMAIN lsHistory
                /\ history' = lsHistory[lsChats[1].id]
          /\ lsChats' = lsChats
          /\ \A i \in 1..Len(lsChats) :
                LET id == lsChats[i].id
                IN  /\ id \in DOMAIN lsHistory /\ id \in DOMAIN lsHistory'
                    /\ lsHistory'[id] = lsHistory[id] ]_vars

\* the page has been loaded over two stored chats, each with a stored question
C7_Witness ==
    /\ last.op = "mount"
    /\ Len(chats) >= 2 /\ history # <<>>
    /\ \E i \in 2..Len(chats) :
          chats[i].id # currentChatId /\ lsHistory[chats[i].id] # <<>>

\* C8: a sendMessage with a non-blank input issues exactly one POST, whose
\* question is the input and whose history is the history before the send,
\* which the question being asked is not part of.
C8_OnePostWithPriorHistory ==
    [][ SentStep =>
          /\ Len(inflight') = Len(inflight) + 1
          /\ \A i \in 1..Len(inflight) : inflight'[i] = inflight[i]
          /\ inflight'[Len(inflight')].question = message
          /\ inflight'[Len(inflight')].history = history
          /\ Len(inflight'[Len(inflight')].history) = Len(history') - 1 ]_vars

\* the second question of a chat has been posted with the first, answered, as
\* its history
C8_Witness ==
    /\ last.op = "sendMessage" /\ last.sent
    /\ inflight # <<>>
    /\ inflight[Len(inflight)].history # <<>>
    /\ Len(inflight[Len(inflight)].history[1]) = 2

\* C9: createNewChat appends a chat whose id is the clock value whether or not
\* the list already holds that id, and a sendMessage with currentChatId "" and
\* no chat of that id appends a chat whose id is "".
C9_IdsNotChecked ==
    [][ /\ last'.op = "createNewChat" =>
            /\ Len(chats') = Len(chats) + 1
            /\ \A i \in 1..Len(chats) : chats'[i] = chats[i]
            /\ chats'[Len(chats')].id = ToString(now)
            /\ currentChatId' = ToString(now)
        /\ (SentStep /\ currentChatId = ""
                /\ \A i \in 1..Len(chats) : chats[i].id # "") =>
            /\ Len(chats') = Len(chats) + 1
            /\ chats'[Len(chats')].id = "" ]_vars

\* createNewChat has just made a list that holds the same id twice
C9_Witness ==
    /\ last.op = "createNewChat"
    /\ \E i, j \in 1..Len(chats) : i < j /\ chats[i].id = chats[j].id

\* C10: a send retitles a listed chat exactly when it is the current chat and
\* its title starts with "Chat", and the new title is the text sent; a chat of
\* createNewChat is titled "New Chat" and no send changes that title; a send
\* with no chat of the current id appends one titled with the text sent; no
\* send changes an id or a date, or anything of a chat that is not current.
C10_Titles ==
    [][ /\ SentStep =>
            /\ \A i \in 1..Len(chats) :
                  /\ chats'[i].id = chats[i].id
                  /\ chats'[i].date = chats[i].date
                  /\ chats'[i].title =
                        IF chats[i].id = currentChatId /\ BeginsWithChat(chats[i].title)
                        THEN message
                        ELSE chats[i].title
                  /\ chats[i].title = NewChatTitle => chats'[i].title = NewChatTitle
            /\ IF \E i \in 1..Len(chats) : chats[i].id = currentChatId
               THEN Len(chats') = Len(chats)
               ELSE /\ Len(chats') = Len(chats) + 1
                    /\ chats'[Len(chats')].id = currentChatId
                    /\ chats'[Len(chats')].title = message
        /\ last'.op = "createNewChat" =>
            chats'[Len(chats')].title = <<"N", "e", "w", " ", "C", "h", "a", "t">> ]_vars

\* a send in a chat titled "Chat" has retitled it while a chat of
\* createNewChat is listed, and the current chat was created by a send
C10_Witness ==
    /\ last.op = "sendMessage" /\ last.sent
    /\ Len(chats) = 2
    /\ chats[1].id = "" /\ currentChatId = ""
    /\ chats[1].title = <<"q", " ">>
    /\ history[1][1] = <<"C", "h", "a", "t">>
    /\ chats[2].title = NewChatTitle

====
